---- MODULE Spec2Model ----
(***************************************************************************)
(* Model of src/app.py: the PDFComplexityAssessor class (analyze,          *)
(* _assess_page, _calculate_pricing) and the main script that saves the    *)
(* upload to a temporary file, runs the assessor, removes the file and     *)
(* renders the result.                                                     *)
(*                                                                         *)
(* Money.  base_rate and form_rate are held in cents.  The inputs are      *)
(* multiples of 50 cents (the step of the two number_input widgets), so    *)
(* every product with 1.0, 1.75, 3.5 and 0.25 is a multiple of 1/32 dollar *)
(* and is exact in binary floating point.  Intermediate amounts are held   *)
(* in sixteenths of a cent; round(x, 2) is Python's round-half-even of the *)
(* exact value and yields whole cents.                                     *)
(***************************************************************************)
EXTENDS Integers, Sequences, FiniteSets

\* ---------------------------------------------------------------- bounds
MaxPages == 2
MaxCalls == 2
MaxScore == 30

\* ------------------------------------------------------ program constants
FormScore == 5
HeavyThreshold == 15000
HeavyScore == 10
ImageThreshold == 2
ImageScore == 2
Tier2From == 5
Tier3From == 15

Tiers == {"Tier 1", "Tier 2", "Tier 3"}

\* multipliers {"Tier 1": 1.0, "Tier 2": 1.75, "Tier 3": 3.5}, times 16
Multipliers16 == [t \in Tiers |->
                    IF t = "Tier 1" THEN 16 ELSE IF t = "Tier 2" THEN 28 ELSE 56]

\* ---------------------------------------------------------------- inputs
\* What page.Annots holds: "absent" ("/Annots" not in page), "list" (its
\* items are the annotations' subtypes, "none" for one without Subtype),
\* "err" (iterating it raises).
AnnotsInputs ==
    { [kind |-> "absent", items |-> <<>>],
      [kind |-> "err",    items |-> <<>>],
      [kind |-> "list",   items |-> <<"/Widget">>],
      [kind |-> "list",   items |-> <<"/Link", "/Widget", "none", "/Widget", "/Widget">>] }

\* page.read_bytes(): readable with a length, or raising.
RawInputs ==
    { [ok |-> FALSE, len |-> 0],
      [ok |-> TRUE,  len |-> 15000],
      [ok |-> TRUE,  len |-> 15001] }

\* page.Resources.XObject: no /Resources, no /XObject in it, present with
\* a number of keys, or present and raising when its keys are read.
XObjInputs ==
    { [kind |-> "noResources", count |-> 0],
      [kind |-> "noXObject",   count |-> 0],
      [kind |-> "err",         count |-> 0],
      [kind |-> "present",     count |-> 2],
      [kind |-> "present",     count |-> 3] }

PageInputs == [annots : AnnotsInputs, raw : RawInputs, xobj : XObjInputs]

\* The pages of documents with more than one page: a plain page (score 0),
\* one widget (5), three widgets on a heavy page with 3 images (27), a
\* heavy page (10), a widget with 3 images and unreadable content (7), a
\* page whose content and images are unreadable (0), and a page whose
\* annotations raise.
CorePages ==
    { p \in PageInputs :
        \/ p.annots.kind = "absent" /\ p.raw.len = 15000 /\ p.raw.ok /\ p.xobj.kind = "noResources"
        \/ p.annots.kind = "list" /\ Len(p.annots.items) = 1 /\ p.raw.ok /\ p.raw.len = 15000
             /\ p.xobj.kind = "present" /\ p.xobj.count = 2
        \/ p.annots.kind = "list" /\ Len(p.annots.items) = 5 /\ p.raw.len = 15001
             /\ p.xobj.kind = "present" /\ p.xobj.count = 3
        \/ p.annots.kind = "absent" /\ p.raw.len = 15001 /\ p.xobj.kind = "noXObject"
        \/ p.annots.kind = "list" /\ Len(p.annots.items) = 1 /\ ~p.raw.ok
             /\ p.xobj.kind = "present" /\ p.xobj.count = 3
        \/ p.annots.kind = "absent" /\ ~p.raw.ok /\ p.xobj.kind = "err"
        \/ p.annots.kind = "err" /\ ~p.raw.ok /\ p.xobj.kind = "noResources" }

SeqsOver(S, n) == UNION { [1..k -> S] : k \in 0..n }

PageLists ==
    UNION { [1..k -> PageInputs] : k \in 0..1 }
      \cup { d \in SeqsOver(CorePages, MaxPages) : Len(d) >= 2 }

\* pdf.Root.MarkInfo: "absent" (no MarkInfo: AttributeError), "noflag"
\* (MarkInfo without Marked: AttributeError), "false", "true", and
\* "unreadable" (reading it raises an exception that is neither
\* AttributeError nor KeyError).
MarkInfoInputs == {"absent", "noflag", "false", "true", "unreadable"}

FileInputs ==
    { [openable |-> FALSE, markinfo |-> "absent", pages |-> <<>>] }
      \cup [openable : {TRUE}, markinfo : MarkInfoInputs, pages : PageLists]

\* st.number_input(value=6.00, step=0.50) and (value=3.00, step=0.50), in
\* cents; number_input has no min_value, so a negative rate can be entered.
RateInputs ==
    { [base |-> 600, form |-> 300],
      [base |-> 650, form |-> 250],
      [base |-> -50, form |-> 300] }

VARIABLES file, base_rate, form_rate, pc, i, report, tmpFile, pdf,
          unreleased, result, displayed, calls

vars == <<file, base_rate, form_rate, pc, i, report, tmpFile, pdf,
          unreleased, result, displayed, calls>>


\* ------------------------------------------------ PDFComplexityAssessor
\* self.report as __init__ builds it.  pricing_breakdown is a key that
\* _calculate_pricing adds: <<>> while the key is missing.
FreshReport ==
    [ is_tagged |-> FALSE,
      total_pages |-> 0,
      tiers |-> [t \in Tiers |-> 0],
      elements |-> [forms |-> 0, images |-> 0, tables_suspected |-> 0],
      estimated_cost |-> 0,
      complexity_breakdown |-> <<>>,
      pricing_breakdown |-> <<>> ]

\* hasattr(annot, "Subtype") and str(annot.Subtype) == "/Widget"
IsWidget(annot) == annot # "none" /\ annot = "/Widget"

RECURSIVE WidgetCount(_)
WidgetCount(items) ==
    IF items = <<>> THEN 0
    ELSE (IF IsWidget(Head(items)) THEN 1 ELSE 0) + WidgetCount(Tail(items))

\* forms_found after the loop over page.Annots
FormsFound(page) ==
    IF page.annots.kind = "list" THEN WidgetCount(page.annots.items) ELSE 0

HeavyPageWrong(page) == page.raw.ok /\ page.raw.len >= HeavyThreshold

\* the try block of lines 96-102 reached "raw_len > 15000"
HeavyPage(page) == page.raw.ok /\ page.raw.len > HeavyThreshold

\* the guard of line 105
HasXObject(page) == page.xobj.kind \in {"present", "err"}

\* img_count was read (line 108 did not raise)
ImagesRead(page) == page.xobj.kind = "present"

PageRaisesWrong(page) ==
    page.annots.kind = "err" \/ ~page.raw.ok \/ page.xobj.kind = "err"

\* _assess_page lets an exception out: only the unguarded loop over
\* page.Annots can raise; the two other reads sit in try/except: pass.
PageRaises(page) == page.annots.kind = "err"

PageScore(page) ==
    FormScore * FormsFound(page)
      + (IF HeavyPage(page) THEN HeavyScore ELSE 0)
      + (IF HasXObject(page) /\ ImagesRead(page) /\ page.xobj.count > ImageThreshold
           THEN ImageScore ELSE 0)

TierOfWrong(page_score) ==
    IF page_score <= Tier2From THEN "Tier 1"
    ELSE IF Tier2From <= page_score /\ page_score < Tier3From THEN "Tier 2"
    ELSE "Tier 3"

\* lines 116-121
TierOf(page_score) ==
    IF page_score < Tier2From THEN "Tier 1"
    ELSE IF Tier2From <= page_score /\ page_score < Tier3From THEN "Tier 2"
    ELSE "Tier 3"

\* _assess_page(page, page_num) on report rep, when it does not raise
AssessPage(rep, page, page_num) ==
    LET forms_found == FormsFound(page)
        page_score  == PageScore(page)
        tier        == TierOf(page_score)
        elements    == [ forms |-> rep.elements.forms + forms_found,
                         tables_suspected |-> rep.elements.tables_suspected
                                                + (IF HeavyPage(page) THEN 1 ELSE 0),
                         images |-> rep.elements.images
                                      + (IF HasXObject(page) /\ ImagesRead(page)
                                           THEN page.xobj.count ELSE 0) ]
    IN  [ rep EXCEPT
            !.elements = elements,
            !.tiers[tier] = @ + 1,
            !.complexity_breakdown =
                Append(@, [Page |-> page_num, Tier |-> tier,
                           Forms |-> forms_found, Score |-> page_score]) ]

RoundHalfUp(x16) == (x16 + 8) \div 16

\* round(x, 2) of an amount in sixteenths of a cent, in cents: half to even
Round2(x16) ==
    LET q == x16 \div 16
        r == x16 % 16
    IN  IF r < 8 THEN q
        ELSE IF r > 8 THEN q + 1
        ELSE IF q % 2 = 0 THEN q ELSE q + 1

\* t1_cost + t2_cost + t3_cost (lines 132-134), in sixteenths of a cent
ContentCost16(rep, base) ==
    rep.tiers["Tier 1"] * base * Multipliers16["Tier 1"]
      + rep.tiers["Tier 2"] * base * Multipliers16["Tier 2"]
      + rep.tiers["Tier 3"] * base * Multipliers16["Tier 3"]

UntaggedTaxNone(rep, base) == 0

\* lines 137-139
UntaggedTax16(rep, base) ==
    IF ~rep.is_tagged THEN ContentCost16(rep, base) \div 4 ELSE 0

\* line 141
FormCost16(rep, form) == rep.elements.forms * form * 16

\* line 143
Total16(rep, base, form) ==
    ContentCost16(rep, base) + UntaggedTax16(rep, base) + FormCost16(rep, form)

\* _calculate_pricing()
CalculatePricing(rep, base, form) ==
    [ rep EXCEPT
        !.estimated_cost = Round2(Total16(rep, base, form)),
        !.pricing_breakdown =
            << [ content  |-> Round2(ContentCost16(rep, base)),
                 untagged |-> Round2(UntaggedTax16(rep, base)),
                 forms    |-> Round2(FormCost16(rep, form)) ] >> ]

TruthyWrong(res) == TRUE

\* "if result:" (line 185): None is false, the report dict is true
Truthy(res) == res = "report"

\* -------------------------------------------------------------- actions
Init ==
    /\ file \in FileInputs
    /\ \E r \in RateInputs : base_rate = r.base /\ form_rate = r.form
    /\ pc = "start"
    /\ i = 0
    /\ report = FreshReport
    /\ tmpFile = "none"
    /\ pdf = "none"
    /\ unreleased = 0
    /\ result = "unset"
    /\ displayed = <<>>
    /\ calls = 0

\* lines 172-179: the upload is written to a temporary file and the
\* assessor is constructed on its path
SaveUpload ==
    /\ pc = "start"
    /\ tmpFile' = "exists"
    /\ report' = FreshReport
    /\ pc' = "open"
    /\ UNCHANGED <<file, base_rate, form_rate, i, pdf, unreleased, result,
                   displayed, calls>>

\* analyze() returns: its local pdf goes out of scope without a close()
Return(res) ==
    /\ result' = res
    /\ pc' = "returned"
    /\ pdf' = "none"
    /\ unreleased' = unreleased + (IF pdf = "open" THEN 1 ELSE 0)

\* lines 48-49, and the handler of lines 78-80 when open raises
Open ==
    /\ pc = "open"
    /\ calls' = calls + 1
    /\ i' = 0
    /\ IF file.openable /\ tmpFile = "exists"
         THEN /\ pdf' = "open"
              /\ report' = [report EXCEPT !.total_pages = Len(file.pages)]
              /\ pc' = "tagging"
              /\ UNCHANGED <<unreleased, result>>
         ELSE /\ Return("None")
              /\ UNCHANGED report
    /\ UNCHANGED <<file, base_rate, form_rate, tmpFile, displayed>>

\* lines 51-57; an exception other than AttributeError and KeyError
\* reaches the handler of lines 78-80
CheckTagging ==
    /\ pc = "tagging"
    /\ IF file.markinfo = "unreadable"
         THEN /\ Return("None")
              /\ UNCHANGED report
         ELSE /\ report' = [report EXCEPT !.is_tagged =
                              IF file.markinfo = "true" THEN TRUE
                              ELSE IF file.markinfo = "false" THEN @
                              ELSE FALSE]
              /\ pc' = "loop"
              /\ UNCHANGED <<pdf, unreleased, result>>
    /\ UNCHANGED <<file, base_rate, form_rate, i, tmpFile, displayed, calls>>

\* one iteration of the page loop (lines 64-70)
AssessNextPage ==
    /\ pc = "loop"
    /\ i < Len(file.pages)
    /\ IF PageRaises(file.pages[i + 1])
         THEN /\ Return("None")
              /\ UNCHANGED <<report, i>>
         ELSE /\ report' = AssessPage(report, file.pages[i + 1], i + 1)
              /\ i' = i + 1
              /\ UNCHANGED <<pc, pdf, unreleased, result>>
    /\ UNCHANGED <<file, base_rate, form_rate, tmpFile, displayed, calls>>

\* lines 72-76
FinishAnalyze ==
    /\ pc = "loop"
    /\ i = Len(file.pages)
    /\ report' = CalculatePricing(report, base_rate, form_rate)
    /\ Return("report")
    /\ UNCHANGED <<file, base_rate, form_rate, i, tmpFile, displayed, calls>>

\* a caller invokes analyze() once more on the same assessor while the
\* temporary file still exists; the class does nothing to prevent it (the
\* main script itself calls analyze() once per assessor)
AnalyzeAgain ==
    /\ pc = "returned"
    /\ calls < MaxCalls
    /\ pc' = "open"
    /\ UNCHANGED <<file, base_rate, form_rate, i, report, tmpFile, pdf,
                   unreleased, result, displayed, calls>>

\* line 183
RemoveTemp ==
    /\ pc = "returned"
    /\ tmpFile' = "removed"
    /\ pc' = "render"
    /\ UNCHANGED <<file, base_rate, form_rate, i, report, pdf, unreleased,
                   result, displayed, calls>>

Max(a, b) == IF a >= b THEN a ELSE b

\* lines 185-235
Render ==
    /\ pc = "render"
    /\ displayed' =
         IF Truthy(result)
           THEN << [ total_pages |-> report.total_pages,
                     structure   |-> IF report.is_tagged THEN "Tagged" ELSE "Untagged",
                     forms       |-> report.elements.forms,
                     tier3       |-> report.tiers["Tier 3"],
                     quote       |-> report.estimated_cost,
                     days        |-> Max(2, report.total_pages \div 10) ] >>
           ELSE <<>>
    /\ pc' = "done"
    /\ UNCHANGED <<file, base_rate, form_rate, i, report, tmpFile, pdf,
                   unreleased, result, calls>>

\* the runtime finalizes a handle that analyze() dropped; Python does not
\* say when
Collect ==
    /\ unreleased > 0
    /\ unreleased' = unreleased - 1
    /\ UNCHANGED <<file, base_rate, form_rate, pc, i, report, tmpFile, pdf,
                   result, displayed, calls>>

Next ==
    \/ SaveUpload
    \/ Open
    \/ CheckTagging
    \/ AssessNextPage
    \/ FinishAnalyze
    \/ AnalyzeAgain
    \/ RemoveTemp
    \/ Render
    \/ Collect

Spec == Init /\ [][Next]_vars


\* --------------------------------------------------------------- claims
\* The signals of a page as the specification names them, an unreadable
\* or absent signal being 0.
WidgetsOf(page) ==
    IF page.annots.kind = "list"
      THEN Cardinality({ j \in DOMAIN page.annots.items : page.annots.items[j] = "/Widget" })
      ELSE 0

BytesOf(page) == IF page.raw.ok THEN page.raw.len ELSE 0

ImagesOf(page) == IF page.xobj.kind = "present" THEN page.xobj.count ELSE 0

AllReadable(page) ==
    page.annots.kind # "err" /\ page.raw.ok /\ page.xobj.kind # "err"

ExpectedScore(page) ==
    5 * WidgetsOf(page)
      + (IF BytesOf(page) > 15000 THEN 10 ELSE 0)
      + (IF ImagesOf(page) > 2 THEN 2 ELSE 0)

TierSum(rep) == rep.tiers["Tier 1"] + rep.tiers["Tier 2"] + rep.tiers["Tier 3"]

Breakdown == report.complexity_breakdown

AfterAnalyze == pc \in {"returned", "render", "done"}

RECURSIVE SumEntries(_, _)
SumEntries(entries, kind) ==
    IF entries = <<>> THEN 0
    ELSE LET page == file.pages[Head(entries).Page]
         IN  (CASE kind = "forms"  -> WidgetsOf(page)
                [] kind = "images" -> ImagesOf(page)
                [] OTHER           -> IF BytesOf(page) > 15000 THEN 1 ELSE 0)
               + SumEntries(Tail(entries), kind)

\* C1: every score s >= 0 gets exactly one tier: Tier 1 iff s < 5, Tier 2
\* iff 5 <= s < 15, Tier 3 iff s >= 15; and every page that _assess_page
\* recorded carries the tier of its score and was counted in one tier.
C1_TierPartition ==
    /\ \A s \in 0..MaxScore :
         /\ TierOf(s) \in Tiers
         /\ (TierOf(s) = "Tier 1") <=> (s < 5)
         /\ (TierOf(s) = "Tier 2") <=> (5 <= s /\ s < 15)
         /\ (TierOf(s) = "Tier 3") <=> (s >= 15)
    /\ \A k \in DOMAIN Breakdown :
         LET e == Breakdown[k]
         IN  /\ e.Score >= 0
             /\ (e.Tier = "Tier 1") <=> (e.Score < 5)
             /\ (e.Tier = "Tier 2") <=> (5 <= e.Score /\ e.Score < 15)
             /\ (e.Tier = "Tier 3") <=> (e.Score >= 15)
    /\ TierSum(report) = Len(Breakdown)

\* a page of score 5 was assessed and recorded as Tier 2
C1_Witness ==
    \E k \in DOMAIN Breakdown : Breakdown[k].Score = 5 /\ Breakdown[k].Tier = "Tier 2"

\* C2: a page whose signals are all readable, with f widgets, b content
\* bytes and m XObjects, is recorded with score 5*f + (10 if b > 15000)
\* + (2 if m > 2), and with f as its form count.
C2_ScoreFormula ==
    \A k \in DOMAIN Breakdown :
       LET e == Breakdown[k]
           page == file.pages[e.Page]
       IN  AllReadable(page) =>
             /\ e.Score = ExpectedScore(page)
             /\ e.Forms = WidgetsOf(page)

\* a page with 3 widget annotations (among 5 annotations), 15001 content
\* bytes and 3 XObjects was recorded with score 3*5 + 10 + 2 = 27
C2_Witness ==
    \E k \in DOMAIN Breakdown :
       LET page == file.pages[Breakdown[k].Page]
       IN  /\ WidgetsOf(page) = 3 /\ BytesOf(page) = 15001 /\ ImagesOf(page) = 3
           /\ Breakdown[k].Score = 27

C4_TierCountsSum ==
    (AfterAnalyze /\ result = "report") => TierSum(report) = report.total_pages

\* C5: a document that cannot be opened yields None; no page is assessed,
\* nothing is priced and nothing is displayed for it.
C5_UnreadableDocument ==
    ~file.openable =>
       /\ report = FreshReport
       /\ result \in {"unset", "None"}
       /\ AfterAnalyze => result = "None"
       /\ displayed = <<>>

\* the script ran to its end on a document that cannot be opened
C5_Witness == ~file.openable /\ pc = "done" /\ result = "None" /\ calls = 1

C7_TaggingNeverFails ==
    ( /\ AfterAnalyze
      /\ file.openable
      /\ \A j \in DOMAIN file.pages : file.pages[j].annots.kind # "err" )
    => /\ result = "report"
       /\ report.is_tagged = (file.markinfo = "true")

\* C8: with the configuration the user supplied, one more page in any tier
\* never lowers the total of line 143.
C8_Monotonic ==
    (pc = "returned" /\ result = "report") =>
       \A t \in Tiers :
          Total16([report EXCEPT !.tiers[t] = @ + 1], base_rate, form_rate)
            >= Total16(report, base_rate, form_rate)

\* C9: the temporary file is not removed while a PDF handle is unclosed,
\* and the run ends with the file removed and every handle closed.
C9_ResourcesReleased ==
    /\ tmpFile = "removed" => (pdf = "none" /\ unreleased = 0)
    /\ pc = "done" => (tmpFile = "removed" /\ pdf = "none" /\ unreleased = 0)

\* C10: once analyze() has returned a report, nothing changes it, a second
\* analyze() included.
C10_Sealed == [][result = "report" => report' = report]_vars

====
